---- MODULE Spec2Model ----
(***************************************************************************)
(* The migration engine of meteor-migrations (src/migrations_server.js):   *)
(* the registry Migrations._list, the control record of the migrations     *)
(* collection and the runs of Migrations.migrateTo by several server       *)
(* processes that share the collection.  Every await of the source is a    *)
(* point where another process may act, so every store operation and every *)
(* step body is an action of its own.                                      *)
(***************************************************************************)
EXTENDS Integers, Sequences, FiniteSets

VARIABLES _list, control, proc, crash, adds

vars == <<_list, control, proc, crash, adds>>

\* ------------------------------------------------------------------ shapes
\* The records of the model.  Every record is written with its fields in the
\* one order used throughout the module.

\* One entry of the record of a call: a store operation or a step invocation
\* (op) and the version it concerns (v).
Event(op, v) == [op |-> op, v |-> v]

\* A command of migrateTo: undefined, a number, or a string given as the
\* fields command.split(',') yields ("" splits into one empty field).
Undefined == [type |-> "undefined", n |-> 0, s |-> <<>>]
Number(n) == [type |-> "number", n |-> n, s |-> <<>>]
String(s) == [type |-> "string", n |-> 0, s |-> s]

\* The document { _id: 'control' } of the migrations collection, or no document.
Absent == [exists |-> FALSE, version |-> 0, locked |-> FALSE]

Record(version, locked) == [exists |-> TRUE, version |-> version, locked |-> locked]

\* const DefaultMigration = { version: 0, up: function() {} }: it has no down.
DefaultMigration == [version |-> 0, down |-> FALSE]

\* The argument of Migrations.add: the value of its version, whether its down
\* is a function, whether its up is a function.
Migration(version, down, up) == [version |-> version, down |-> down, up |-> up]

\* One call of add: its argument and whether it returned (accepted) or threw.
AddCall(migration, accepted) == [migration |-> migration, accepted |-> accepted]

\* What one process holds: where its migrateTo call stands (pc), the locals of
\* _migrateTo, and the record of the current call: the command, the control
\* record as its _getControl found it (start), every store write and step
\* invocation of the call in order (log: find and miss are the outcomes of
\* the read of _getControl) and how the call ended (result).
IdleFrame ==
    [version |-> 0, pc |-> "idle", runs |-> 0, command |-> Undefined,
     start |-> Absent, rerun |-> FALSE, subcommand |-> "",
     currentVersion |-> 0, endIdx |-> 0, i |-> 0, direction |-> "up",
     idx |-> 0, error |-> "", result |-> "", log |-> <<>>]

\* ------------------------------------------------------------------ bounds
\* Largest version a registered step may carry.
MaxVersion == 3
\* Calls of migrateTo one process makes in the sequential specification.
MaxRuns == 2
\* Server processes sharing the collection in the concurrent specifications.
NumProcs == 2
\* Largest version of a registered step in the concurrent specifications.
ConcMaxVersion == 1

\* Calls of Migrations.add in the specification of add.
MaxAdds == 3
\* Largest integer that add is called with as a version.
MaxAddVersion == 2

\* Meteor.startup calls Migrations.migrateTo(process.env.MIGRATE) once in the
\* life of a server process.
StartupRuns == 1

Procs == 1..NumProcs

\* ---------------------------------------------------------------- registry
\* A step as Migrations.add accepts it: up is a function, version > 0; down is
\* optional.
Steps(maxv) == { [version |-> w, down |-> d] : w \in 1..maxv, d \in BOOLEAN }

RECURSIVE SortedSeq(_, _)
\* The steps of S whose version is at least lo, ascending by version.
SortedSeq(S, lo) ==
    IF \A s \in S : s.version < lo THEN <<>>
    ELSE LET here == {s \in S : s.version = lo}
         IN  (IF here = {} THEN <<>> ELSE <<CHOOSE s \in here : TRUE>>)
             \o SortedSeq(S, lo + 1)

\* The registries Migrations._list can hold after any calls of add with
\* pairwise distinct versions: the sentinel first, then the added steps in
\* ascending version order (add sorts after every push).
Registries(maxv) ==
    { <<DefaultMigration>> \o SortedSeq(S, 1) :
        S \in { T \in SUBSET Steps(maxv) :
                  \A a, b \in T : a.version = b.version => a = b } }

\* self._list[idx], idx counted from 0 as in the source.
At(idx) == _list[idx + 1]

Length == Len(_list)

Versions == { _list[k].version : k \in 1..Len(_list) }

\* typeof migration[direction] === 'function'
HasDirection(migration, direction) ==
    IF direction = "up" THEN TRUE ELSE migration.down

\* Migrations._findIndexByVersion: the first index holding version, counted
\* from 0; NotFound stands for the Meteor.Error it throws.
NotFound == -1

_findIndexByVersion(version) ==
    IF \E k \in 0..(Length - 1) : At(k).version = version
    THEN CHOOSE k \in 0..(Length - 1) :
            /\ At(k).version = version
            /\ \A j \in 0..(k - 1) : At(j).version # version
    ELSE NotFound

\* ----------------------------------------------------------- control record
\* A bug _setControl could have: the version after the one it is given.
_setControlNext(version, locked) == Record(version + 1, locked)

\* Migrations._setControl: updateAsync({_id:'control'}, {$set: {version,
\* locked, lockedAt}}, {upsert: true}) writes the record whether or not one
\* exists.
_setControl(version, locked) == Record(version, locked)

\* ----------------------------------------------------------------- commands
Digits == <<"0", "1", "2", "3", "4", "5", "6", "7", "8", "9">>

\* The decimal numeral of n, for the one-digit versions of the model.
Numeral(n) == Digits[n + 1]

\* parseInt on a one-digit numeral.
parseInt(str) == (CHOOSE k \in 1..Len(Digits) : Digits[k] = str) - 1

\* The commands of the sequential specification, in a list: the invalid
\* ones, latest with and without a subcommand, every version up to maxv as a
\* number and as a rerun, and maxv as a string.
Commands(maxv) ==
    <<Undefined, String(<<"">>), String(<<"latest">>),
      String(<<"latest", "rerun">>), String(<<"latest", "exit">>),
      String(<<Numeral(maxv)>>)>>
    \o [k \in 1..(maxv + 1) |-> Number(k - 1)]
    \o [k \in 1..(maxv + 1) |-> String(<<Numeral(k - 1), "rerun">>)]

\* The commands of the concurrent specifications: up to the latest version,
\* down to 0, to a version that is not registered, and a rerun.
ConcCommands(maxv) ==
    <<String(<<"latest">>), Number(0), Number(maxv + 1),
      String(<<Numeral(maxv), "rerun">>)>>

\* ---------------------------------------------------------------------- add
\* The values add is called with as migration.version: undefined, a string,
\* and the numbers from -1/2 to maxv in steps of 1/2.  In the specification of
\* add a number is written in halves (Number(3) is 1.5), so that numbers that
\* are not integers are among the inputs; 0 is 0 in either reading.
AddVersions(maxv) ==
    <<Undefined, String(<<"1">>)>> \o [k \in 1..(2 * maxv + 2) |-> Number(k - 2)]

\* Number.isInteger of a number written in halves.
IsInteger(n) == n % 2 = 0

\* The three checks of add: typeof migration.up === 'function', typeof
\* migration.version === 'number', and not migration.version <= 0.
Accepted(migration) ==
    /\ migration.up
    /\ migration.version.type = "number"
    /\ ~(migration.version.n <= 0)

\* The object add pushes, as the registry holds it.
Pushed(migration) == [version |-> migration.version.n, down |-> migration.down]

RECURSIVE sort(_)
\* this._list.sort((a, b) => a.version > b.version ? 1 : b.version >
\* a.version ? -1 : 0): Array.prototype.sort is stable, so an element goes
\* behind the elements that are not greater and were before it.
sort(list) ==
    IF Len(list) <= 1 THEN list
    ELSE LET front == sort(SubSeq(list, 1, Len(list) - 1))
             x == list[Len(list)]
             k == Cardinality({ j \in 1..Len(front) :
                                  ~(front[j].version > x.version) })
         IN  SubSeq(front, 1, k) \o <<x>> \o SubSeq(front, k + 1, Len(front))

\* Migrations.add(migration).
Add ==
    /\ Len(adds) < MaxAdds
    /\ \E k \in 1..Len(AddVersions(MaxAddVersion)), down \in BOOLEAN, up \in BOOLEAN :
         LET migration == Migration(AddVersions(MaxAddVersion)[k], down, up) IN
         /\ _list' = IF Accepted(migration)
                     THEN sort(Append(_list, Pushed(migration)))
                     ELSE _list
         /\ adds' = Append(adds, AddCall(migration, Accepted(migration)))
    /\ UNCHANGED <<control, proc, crash>>

\* ---------------------------------------------------------------- processes
\* The registry as the adds left it; the collection is new (no record) or
\* holds the unlocked record earlier runs left at a registered version; no
\* call is under way.
InitWith(maxv) ==
    /\ _list \in Registries(maxv)
    /\ control \in {Absent} \cup { Record(v, FALSE) : v \in Versions }
    /\ proc = [p \in Procs |-> IdleFrame]
    /\ crash = Absent
    /\ adds = <<>>

Init == InitWith(MaxVersion)

InitConc == InitWith(ConcMaxVersion)

\* The module is loaded: the registry holds the sentinel and add was not yet
\* called.
InitAdd ==
    /\ _list = <<DefaultMigration>>
    /\ control = Absent
    /\ proc = [p \in Procs |-> IdleFrame]
    /\ crash = Absent
    /\ adds = <<>>

\* The calls of add that the application makes while it loads.
SpecAdd == InitAdd /\ [][Add]_vars

\* ------------------------------------------------------- reading a frame
\* The call of frame f has returned or thrown.
Done(f) == f.runs > 0 /\ (f.pc = "idle" \/ f.pc = "exited")

Has(log, op) == \E k \in 1..Len(log) : log[k].op = op

IsStep(e) == e.op = "up" \/ e.op = "down"

IsWrite(e) ==
    e.op = "create" \/ e.op = "lock" \/ e.op = "ckpt" \/ e.op = "unlock"

\* The call has invoked no step function.
NoSteps(log) == \A k \in 1..Len(log) : ~IsStep(log[k])

\* The call has written nothing to the control record.
NoWrites(log) == \A k \in 1..Len(log) : ~IsWrite(log[k])

\* ------------------------------------------------- _migrateTo, between awaits
\* The call returns (result "ok") or throws (result names the error).  With
\* the subcommand exit, migrateTo ends the process after _migrateTo returned.
Return(f, result) ==
    [f EXCEPT !.result = result,
              !.pc = IF result = "ok" /\ f.subcommand = "exit"
                     THEN "exited" ELSE "idle"]

Logged(f, op, v) == [f EXCEPT !.log = Append(@, Event(op, v))]

\* A bug FastPath could have: the target compared with === before parseInt,
\* so that only a numeric command can match.
FastPathUnparsed(f) ==
    ~f.rerun /\ f.command.type = "number" /\ f.currentVersion = f.version

\* The fast path: nothing to do when the version read is the target.
FastPath(f) == ~f.rerun /\ f.currentVersion = f.version

\* After _getControl returned: the fast path, or on to lock().
AfterGetControl(f) ==
    IF FastPath(f) THEN Return(f, "ok") ELSE [f EXCEPT !.pc = "lock"]

\* A bug migrate could have: on a step that lacks the direction, the target
\* taken as the version reached.
migrateCommitsTarget(f, direction, idx) ==
    IF ~HasDirection(At(idx), direction)
    THEN [f EXCEPT !.pc = "migrateUnlock", !.direction = direction,
                   !.idx = idx, !.error = "DirectionUnsupported",
                   !.currentVersion = f.version]
    ELSE Logged([f EXCEPT !.pc = "body", !.direction = direction, !.idx = idx],
                direction, At(idx).version)

\* migrate(direction, idx) up to its first await: the unlock of a step that
\* lacks the direction, or the step's body.
migrate(f, direction, idx) ==
    IF ~HasDirection(At(idx), direction)
    THEN [f EXCEPT !.pc = "migrateUnlock", !.direction = direction,
                   !.idx = idx, !.error = "DirectionUnsupported"]
    ELSE Logged([f EXCEPT !.pc = "body", !.direction = direction, !.idx = idx],
                direction, At(idx).version)

\* A bug Loop could have: the upward bound off by one, so that the target's
\* own step is not run.
LoopStopsEarly(f) ==
    IF f.direction = "up"
    THEN IF f.i < f.endIdx - 1 THEN migrate(f, "up", f.i + 1)
         ELSE [f EXCEPT !.pc = "unlock"]
    ELSE IF f.i > f.endIdx THEN migrate(f, "down", f.i)
         ELSE [f EXCEPT !.pc = "unlock"]

\* The head of the for loop of the try block: the next step, or the finally.
Loop(f) ==
    IF f.direction = "up"
    THEN IF f.i < f.endIdx THEN migrate(f, "up", f.i + 1)
         ELSE [f EXCEPT !.pc = "unlock"]
    ELSE IF f.i > f.endIdx THEN migrate(f, "down", f.i)
         ELSE [f EXCEPT !.pc = "unlock"]

\* After lock() returned true.  Rerun: the lookup is inside the try, so a
\* version that is not registered goes to the finally.  Otherwise the two
\* lookups come before the try: when one throws, the call ends there.
AfterLock(f) ==
    IF f.rerun
    THEN LET idx == _findIndexByVersion(f.version)
         IN  IF idx = NotFound
             THEN [f EXCEPT !.pc = "unlock", !.error = "VersionNotFound"]
             ELSE migrate(f, "up", idx)
    ELSE LET startIdx == _findIndexByVersion(f.currentVersion)
             endIdx == _findIndexByVersion(f.version)
         IN  IF startIdx = NotFound \/ endIdx = NotFound
             THEN Return(f, "VersionNotFound")
             ELSE Loop([f EXCEPT !.i = startIdx, !.endIdx = endIdx,
                                 !.direction = IF f.currentVersion < f.version
                                               THEN "up" ELSE "down"])

\* A bug StepVersion could have: after down, the version of the step itself.
StepVersionOwn(f) ==
    IF f.direction = "up" THEN At(f.i + 1).version ELSE At(f.i).version

\* currentVersion after the step at hand: the version of the step just run
\* (up), or of the step below it (down).
StepVersion(f) ==
    IF f.direction = "up" THEN At(f.i + 1).version ELSE At(f.i - 1).version

\* A bug unlock could have: the target written instead of currentVersion.
unlockTarget(f) == _setControl(f.version, FALSE)

\* unlock(): _setControl({ locked: false, version: currentVersion }).
unlock(f) == _setControl(f.currentVersion, FALSE)

\* A bug updateVersion could have: the target stored instead of the version
\* reached.
updateVersionTarget(f) == _setControl(f.version, TRUE)

\* updateVersion(): _setControl({ locked: true, version: currentVersion }).
updateVersion(f) == _setControl(f.currentVersion, TRUE)

\* A bug LockDenied could have: the attempt repeated until it succeeds.
LockDeniedRetries(f) == [Logged(f, "denied", 0) EXCEPT !.pc = "lock"]

\* lock() returned false: log and return.
LockDenied(f) == Return(Logged(f, "denied", 0), "ok")

\* A bug LockSelector could have: the selector { _id: 'control' } alone.
LockSelectorAny(c) == c.exists

\* The selector { _id: 'control', locked: false } of lock().
LockSelector(c) == c.exists /\ ~c.locked

\* ------------------------------------------------------------------ actions
\* Migrations.migrateTo(command) up to the first await of _migrateTo.
MigrateTo(p, cmds, maxRuns) ==
    LET f == proc[p] IN
    /\ f.pc = "idle"
    /\ f.runs < maxRuns
    /\ \E k \in 1..Len(cmds) :
         LET command == cmds[k]
             g == [IdleFrame EXCEPT !.runs = f.runs + 1, !.command = command]
             isString == command.type = "string"
             latest == isString /\ command.s[1] = "latest"
             subcommand == IF isString /\ Len(command.s) >= 2
                           THEN command.s[2] ELSE ""
             version == IF latest THEN At(Length - 1).version
                        ELSE IF isString THEN parseInt(command.s[1])
                        ELSE command.n
         IN  proc' = [proc EXCEPT ![p] =
                 IF \/ command.type = "undefined"
                    \/ command = String(<<"">>)
                    \/ Length = 0
                 THEN Return(g, "InvalidCommand")
                 ELSE [g EXCEPT !.pc = "getControl", !.version = version,
                                !.subcommand = subcommand,
                                !.rerun = (~latest /\ subcommand = "rerun")]]
    /\ UNCHANGED <<_list, control, crash, adds>>

\* _getControl: findOneAsync({ _id: 'control' }).
FindOne(p) ==
    LET f == proc[p] IN
    /\ f.pc = "getControl"
    /\ proc' = [proc EXCEPT ![p] =
          IF control.exists
          THEN AfterGetControl(Logged([f EXCEPT !.currentVersion = control.version,
                                                !.start = control],
                                      "find", control.version))
          ELSE Logged([f EXCEPT !.pc = "setDefault"], "miss", 0)]
    /\ UNCHANGED <<_list, control, crash, adds>>

\* _getControl found no record: _setControl({ version: 0, locked: false }).
SetDefault(p) ==
    LET f == proc[p] IN
    /\ f.pc = "setDefault"
    /\ control' = _setControl(0, FALSE)
    /\ proc' = [proc EXCEPT ![p] =
          AfterGetControl(Logged([f EXCEPT !.currentVersion = 0], "create", 0))]
    /\ UNCHANGED <<_list, crash, adds>>

\* lock(): one conditional update of the store.
Lock(p) ==
    LET f == proc[p] IN
    /\ f.pc = "lock"
    /\ IF LockSelector(control)
       THEN /\ control' = [control EXCEPT !.locked = TRUE]
            /\ proc' = [proc EXCEPT ![p] = AfterLock(Logged(f, "lock", 0))]
       ELSE /\ control' = control
            /\ proc' = [proc EXCEPT ![p] = LockDenied(f)]
    /\ UNCHANGED <<_list, crash, adds>>

\* A bug StepReturns could have: a rerun that records the version it reran.
StepReturnsRecordsRerun(p) ==
    LET f == proc[p] IN
    /\ f.pc = "body"
    /\ proc' = [proc EXCEPT ![p] =
          IF f.rerun THEN [f EXCEPT !.pc = "unlock", !.currentVersion = f.version]
          ELSE [f EXCEPT !.pc = "updateVersion",
                         !.currentVersion = StepVersion(f)]]
    /\ UNCHANGED <<_list, control, crash, adds>>

\* The body of the step resolves.
StepReturns(p) ==
    LET f == proc[p] IN
    /\ f.pc = "body"
    /\ proc' = [proc EXCEPT ![p] =
          IF f.rerun THEN [f EXCEPT !.pc = "unlock"]
          ELSE [f EXCEPT !.pc = "updateVersion",
                         !.currentVersion = StepVersion(f)]]
    /\ UNCHANGED <<_list, control, crash, adds>>

\* The body of the step throws or rejects: catch, log, rethrow, finally.
StepThrows(p) ==
    LET f == proc[p] IN
    /\ f.pc = "body"
    /\ proc' = [proc EXCEPT ![p] =
          Logged([f EXCEPT !.pc = "unlock", !.error = "StepExecutionError"],
                 "throw", At(f.idx).version)]
    /\ UNCHANGED <<_list, control, crash, adds>>

\* updateVersion(), then the next turn of the loop.
UpdateVersion(p) ==
    LET f == proc[p] IN
    /\ f.pc = "updateVersion"
    /\ control' = updateVersion(f)
    /\ proc' = [proc EXCEPT ![p] =
          Loop(Logged([f EXCEPT !.i = IF f.direction = "up" THEN f.i + 1
                                      ELSE f.i - 1],
                      "ckpt", f.currentVersion))]
    /\ UNCHANGED <<_list, crash, adds>>

\* The unlock() of migrate before it throws; the throw leads to the finally.
MigrateUnlock(p) ==
    LET f == proc[p] IN
    /\ f.pc = "migrateUnlock"
    /\ control' = unlock(f)
    /\ proc' = [proc EXCEPT ![p] =
          Logged([f EXCEPT !.pc = "unlock"], "unlock", f.currentVersion)]
    /\ UNCHANGED <<_list, crash, adds>>

\* The unlock() of the finally block; then the call returns or rethrows.
Unlock(p) ==
    LET f == proc[p] IN
    /\ f.pc = "unlock"
    /\ control' = unlock(f)
    /\ proc' = [proc EXCEPT ![p] =
          Return(Logged(f, "unlock", f.currentVersion),
                 IF f.error = "" THEN "ok" ELSE f.error)]
    /\ UNCHANGED <<_list, crash, adds>>

\* ----------------------------------------------------------- specifications
\* One process, several calls one after the other.
NextSeq ==
    \/ MigrateTo(1, Commands(MaxVersion), MaxRuns)
    \/ FindOne(1)
    \/ SetDefault(1)
    \/ Lock(1)
    \/ StepReturns(1)
    \/ StepThrows(1)
    \/ UpdateVersion(1)
    \/ MigrateUnlock(1)
    \/ Unlock(1)

SpecSeq == Init /\ [][NextSeq]_vars

\* The call of f took the lock and has not yet written an unlock.
Holding(f) ==
    /\ \/ f.pc = "body" \/ f.pc = "updateVersion"
       \/ f.pc = "migrateUnlock" \/ f.pc = "unlock"
    /\ ~Has(f.log, "unlock")

\* The process is killed in the middle of a call.  crash keeps the record as
\* it was when a process died between its lock and its unlock.
Kill(p) ==
    LET f == proc[p] IN
    /\ f.pc # "idle" /\ f.pc # "exited" /\ f.pc # "dead"
    /\ proc' = [proc EXCEPT ![p] = [f EXCEPT !.pc = "dead"]]
    /\ crash' = IF Holding(f) THEN control ELSE crash
    /\ UNCHANGED <<_list, control, adds>>

\* A bug ManualUnlock could have: the update made with upsert, as _setControl's.
ManualUnlockUpserts ==
    /\ control' = Record(control.version, FALSE)
    /\ crash' = Absent
    /\ UNCHANGED <<_list, proc, adds>>

\* Migrations.unlock(): updateAsync({ _id: 'control' }, { $set: { locked:
\* false } }), no upsert.
ManualUnlock ==
    /\ control' = IF control.exists THEN [control EXCEPT !.locked = FALSE]
                  ELSE control
    /\ crash' = Absent
    /\ UNCHANGED <<_list, proc, adds>>

\* Several server processes, each calling migrateTo from its startup hook, in
\* any interleaving of their store operations and step bodies.
Run(p) ==
    \/ MigrateTo(p, ConcCommands(ConcMaxVersion), StartupRuns)
    \/ FindOne(p)
    \/ SetDefault(p)
    \/ Lock(p)
    \/ StepReturns(p)
    \/ StepThrows(p)
    \/ UpdateVersion(p)
    \/ MigrateUnlock(p)
    \/ Unlock(p)

NextConc == \E p \in Procs : Run(p)

SpecConc == InitConc /\ [][NextConc]_vars

\* The operator calls unlock() to recover from a crash that left the lock.
Recover == crash.exists /\ ManualUnlock

\* The same with process kills and the operator's recovery.
NextCrash ==
    \/ \E p \in Procs : Run(p)
    \/ \E p \in Procs : Kill(p)
    \/ Recover

SpecCrash == InitConc /\ [][NextCrash]_vars

\* The frame of a call that is about to call lock(): its _getControl read
\* currentVersion from an unlocked record, and the fast path did not apply.
LockFrame(version, rerun, currentVersion) ==
    [IdleFrame EXCEPT !.version = version, !.pc = "lock", !.runs = 1,
                      !.command = IF rerun
                                  THEN String(<<Numeral(version), "rerun">>)
                                  ELSE Number(version),
                      !.start = Record(currentVersion, FALSE),
                      !.rerun = rerun,
                      !.currentVersion = currentVersion,
                      !.log = <<Event("find", currentVersion)>>]

\* Every process is about to call lock(), and the collection is in any state
\* other clients may have left it in since the reads: no record (_reset
\* removes it), or a record at any registered version, locked or not.
InitLock ==
    /\ _list \in Registries(ConcMaxVersion)
    /\ control \in {Absent} \cup { Record(v, l) : v \in Versions, l \in BOOLEAN }
    /\ proc \in [Procs -> { LockFrame(t, r, c) :
                              t \in 0..ConcMaxVersion, r \in BOOLEAN, c \in Versions }]
    /\ \A p \in Procs : ~FastPath(proc[p])
    /\ crash = Absent
    /\ adds = <<>>

\* The calls from their lock() on.
NextLock ==
    \E p \in Procs :
        \/ Lock(p)
        \/ StepReturns(p)
        \/ StepThrows(p)
        \/ UpdateVersion(p)
        \/ MigrateUnlock(p)
        \/ Unlock(p)

SpecLock == InitLock /\ [][NextLock]_vars

\* Migrations.getVersion() up to the answer of findOneAsync: the version of
\* the record found is returned, or the default record is yet to be written.
GetVersion(p) ==
    LET f == proc[p]
        g == [IdleFrame EXCEPT !.runs = f.runs + 1]
    IN
    /\ f.pc = "idle"
    /\ f.runs < StartupRuns
    /\ proc' = [proc EXCEPT ![p] =
          IF control.exists
          THEN Return(Logged([g EXCEPT !.currentVersion = control.version],
                             "find", control.version), "ok")
          ELSE Logged([g EXCEPT !.pc = "getVersionDefault"], "miss", 0)]
    /\ UNCHANGED <<_list, control, crash, adds>>

\* getVersion found no record: its _getControl writes the default record and
\* getVersion returns version 0.
GetVersionDefault(p) ==
    LET f == proc[p] IN
    /\ f.pc = "getVersionDefault"
    /\ control' = _setControl(0, FALSE)
    /\ proc' = [proc EXCEPT ![p] =
          Return(Logged([f EXCEPT !.currentVersion = 0], "create", 0), "ok")]
    /\ UNCHANGED <<_list, crash, adds>>

\* The public operations in any interleaving: every process calls migrateTo
\* or getVersion, and unlock() is called at any moment, any number of times.
NextOps ==
    \/ \E p \in Procs : Run(p)
    \/ \E p \in Procs : GetVersion(p)
    \/ \E p \in Procs : GetVersionDefault(p)
    \/ ManualUnlock

SpecOps == InitConc /\ [][NextOps]_vars

\* ------------------------------------------------- vocabulary of the claims
\* What _getControl logs when it finds the record r.
ReadTrace(r) ==
    IF r.exists THEN <<Event("find", r.version)>>
    ELSE <<Event("miss", 0), Event("create", 0)>>

\* The largest registered version below v (v itself when there is none).
PrevVersion(v) ==
    IF \E w \in Versions : w < v
    THEN CHOOSE w \in Versions : w < v /\ \A x \in Versions : x < v => x <= w
    ELSE v

MaxRegistered == CHOOSE w \in Versions : \A x \in Versions : x <= w

RECURSIVE UpTrace(_, _)
\* up and checkpoint of every registered version in (c, t], ascending.
UpTrace(c, t) ==
    LET todo == { v \in Versions : c < v /\ v <= t } IN
    IF todo = {} THEN <<>>
    ELSE LET v == CHOOSE w \in todo : \A x \in todo : w <= x
         IN  <<Event("up", v), Event("ckpt", v)>> \o UpTrace(v, t)

RECURSIVE DownTrace(_, _)
\* down of every registered version in (t, c], descending, each followed by
\* the checkpoint of the next lower registered version.
DownTrace(c, t) ==
    LET todo == { v \in Versions : t < v /\ v <= c } IN
    IF todo = {} THEN <<>>
    ELSE LET v == CHOOSE w \in todo : \A x \in todo : x <= w
         IN  <<Event("down", v), Event("ckpt", PrevVersion(v))>>
             \o DownTrace(PrevVersion(v), t)

\* ---------------------------------------------------------------------- C1
\* C1: at most one process is between its successful lock and its unlock
\* (Holding: it took the lock and has not yet written any unlock), whatever
\* the record the processes started from; so no two processes have a step
\* body in progress at the same time.
C1_MutualExclusion ==
    \A p, q \in Procs :
        p # q => ~(Holding(proc[p]) /\ Holding(proc[q]))

\* ---------------------------------------------------------------------- C2
\* The call of f is migrateTo("latest") on an existing record and no body of
\* it has failed.
LatestCall(f) ==
    /\ f.runs = 1
    /\ f.command = String(<<"latest">>)
    /\ f.start.exists
    /\ ~Has(f.log, "throw")

\* C2: of two concurrent calls migrateTo("latest"), at most one invokes any
\* step function.
C2_OnlyOneCallRunsSteps ==
    \A p, q \in Procs :
        (p # q /\ LatestCall(proc[p]) /\ LatestCall(proc[q])) =>
            NoSteps(proc[p].log) \/ NoSteps(proc[q].log)

\* ---------------------------------------------------------------------- C3
\* C3: every call that acquired the lock has called unlock by the time it
\* returns or throws.
C3_UnlockOnEveryPath ==
    \A p \in Procs :
        Done(proc[p]) /\ Has(proc[p].log, "lock") => Has(proc[p].log, "unlock")

\* ---------------------------------------------------------------------- C4
\* The call of f was a sequential run in which the body of a step threw.
StepFailed(f) == Done(f) /\ ~f.rerun /\ Has(f.log, "throw")

\* C4: when the body of step k throws in a sequential run of one process,
\* the call did exactly the steps before k, each with its checkpoint, then k,
\* and nothing after it; the record is left unlocked at the version reached
\* before k, and the error is rethrown.
C4_FailureKeepsLastCommitted ==
    \A p \in Procs :
        LET f == proc[p]
            k == f.log[Len(f.log) - 1].v
            c == f.start.version
            last == IF f.direction = "up" THEN PrevVersion(k) ELSE k
        IN  StepFailed(f) =>
              /\ f.result = "StepExecutionError"
              /\ control = Record(last, FALSE)
              /\ f.log = ReadTrace(f.start) \o <<Event("lock", 0)>>
                           \o (IF f.direction = "up" THEN UpTrace(c, last)
                               ELSE DownTrace(c, last))
                           \o <<Event(f.direction, k), Event("throw", k),
                                Event("unlock", last)>>

\* up of version 2 threw while migrating 0 to 3: the record is left at 1.
C4_Witness ==
    \E p \in Procs :
        /\ StepFailed(proc[p])
        /\ proc[p].start = Record(0, FALSE)
        /\ proc[p].version = 3
        /\ Has(proc[p].log, "ckpt")
        /\ proc[p].log[Len(proc[p].log) - 1] = Event("throw", 2)
        /\ control = Record(1, FALSE)

\* ---------------------------------------------------------------------- C5
\* The call of f was a sequential run that returned, from c up to t.
UpRun(f) ==
    /\ Done(f) /\ ~f.rerun /\ f.result = "ok"
    /\ ~f.start.locked
    /\ f.start.version < f.version

\* C5: an upward run of one process whose bodies all succeed invokes up on
\* the registered versions in (c, t], ascending, each once and each followed
\* by its checkpoint, invokes nothing else, and leaves the record unlocked at
\* t; while a step runs the record is locked at the version below it; latest
\* is the largest registered version.
C5_UpwardTraversal ==
    \A p \in Procs :
        LET f == proc[p] IN
        /\ UpRun(f) =>
              /\ f.log = ReadTrace(f.start) \o <<Event("lock", 0)>>
                           \o UpTrace(f.start.version, f.version)
                           \o <<Event("unlock", f.version)>>
              /\ control = Record(f.version, FALSE)
        /\ (f.pc = "body" /\ ~f.rerun /\ f.direction = "up") =>
              control = Record(PrevVersion(At(f.idx).version), TRUE)
        /\ (f.pc # "idle" /\ f.command = String(<<"latest">>)) =>
              f.version = MaxRegistered

\* migrateTo("latest") from 0 over the steps 1, 2, 3.
C5_Witness ==
    \E p \in Procs :
        /\ UpRun(proc[p])
        /\ proc[p].command = String(<<"latest">>)
        /\ proc[p].start = Record(0, FALSE)
        /\ Length = 4 /\ MaxRegistered = 3
        /\ control = Record(3, FALSE)

\* ---------------------------------------------------------------------- C6
\* The call of f was a sequential run that returned, from c down to t.
DownRun(f) ==
    /\ Done(f) /\ ~f.rerun /\ f.result = "ok"
    /\ ~f.start.locked
    /\ f.start.version > f.version

\* C6: a downward run of one process whose bodies all succeed invokes down on
\* the registered versions in (t, c], descending, each once and each followed
\* by the checkpoint of the next lower registered version, invokes nothing
\* else (no up, no down of t), and leaves the record unlocked at t.
C6_DownwardTraversal ==
    \A p \in Procs :
        LET f == proc[p] IN
        DownRun(f) =>
            /\ f.log = ReadTrace(f.start) \o <<Event("lock", 0)>>
                         \o DownTrace(f.start.version, f.version)
                         \o <<Event("unlock", f.version)>>
            /\ control = Record(f.version, FALSE)

\* migrateTo(1) from 3: down of 3, then down of 2.
C6_Witness ==
    \E p \in Procs :
        /\ DownRun(proc[p])
        /\ proc[p].start = Record(3, FALSE)
        /\ proc[p].version = 1
        /\ Length = 4 /\ MaxRegistered = 3
        /\ control = Record(1, FALSE)

\* ---------------------------------------------------------------------- C7
\* The call of f was a rerun of a registered version on an unlocked record.
Rerun(f) ==
    /\ Done(f) /\ f.rerun
    /\ f.version \in Versions
    /\ ~f.start.locked

\* C7: a rerun of the registered version v by one process invokes up of v
\* once and nothing else, and leaves the record unlocked at the version c it
\* had, whether or not the body fails and whatever the order of c and v.
C7_RerunKeepsVersion ==
    \A p \in Procs :
        LET f == proc[p]
            v == f.version
            c == f.start.version
        IN  Rerun(f) =>
              /\ control = Record(c, FALSE)
              /\ \/ /\ f.result = "ok"
                    /\ f.log = ReadTrace(f.start)
                                 \o <<Event("lock", 0), Event("up", v),
                                      Event("unlock", c)>>
                 \/ /\ f.result = "StepExecutionError"
                    /\ f.log = ReadTrace(f.start)
                                 \o <<Event("lock", 0), Event("up", v),
                                      Event("throw", v), Event("unlock", c)>>

\* A rerun of a version above the stored one, whose body failed.
C7_Witness ==
    \E p \in Procs :
        /\ Rerun(proc[p])
        /\ proc[p].start.exists
        /\ proc[p].start.version < proc[p].version
        /\ proc[p].result = "StepExecutionError"

FastCase(f) ==
    /\ f.runs > 0 /\ ~f.rerun
    /\ \/ Has(f.log, "find") /\ f.log[1].v = f.version
       \/ Has(f.log, "create") /\ f.version = 0

\* C9 as stated: on the fast path the call attempts no lock, invokes no step
\* and writes nothing to the control record.
C9_FastPathWritesNothing ==
    \A p \in Procs :
        FastCase(proc[p]) =>
            /\ ~Has(proc[p].log, "lock") /\ ~Has(proc[p].log, "denied")
            /\ NoSteps(proc[p].log)
            /\ NoWrites(proc[p].log)

\* C9, amended: on the fast path the call returns at once, attempts no lock,
\* invokes no step, and writes nothing but the default record that its own
\* _getControl creates when the collection holds none; when the record
\* exists, it is left exactly as it was.
C9_FastPath ==
    \A p \in Procs :
        LET f == proc[p] IN
        FastCase(f) =>
            /\ Done(f) /\ f.result = "ok"
            /\ f.log = ReadTrace(f.start)
            /\ control = IF f.start.exists THEN f.start ELSE Record(0, FALSE)

\* The second call in a row at the latest version 3.
C9_Witness ==
    \E p \in Procs :
        /\ FastCase(proc[p])
        /\ proc[p].runs = 2
        /\ proc[p].command = String(<<"latest">>)
        /\ proc[p].version = 3
        /\ control = Record(3, FALSE)

\* --------------------------------------------------------------------- C10
\* C10: once a process died between its lock and its unlock, the record stays
\* locked and as it was, until unlock() is called.
C10_CrashKeepsLock ==
    crash.exists => control = crash /\ control.locked

\* --------------------------------------------------------------------- C11
\* C11: unlock() sets locked to false on the record that exists and leaves
\* its version as it was, whatever the version and the lock state; when there
\* is no record it creates none.  (Under SpecOps the steps that leave every
\* process where it was are the calls of unlock().)
C11_UnlockClearsOnlyLocked ==
    [][proc' = proc =>
          control' = IF control.exists THEN Record(control.version, FALSE)
                     ELSE Absent]_vars

\* unlock() was called while the only process that ever ran is in the body of
\* its first step: the record is unlocked at the version it had.
C11_Witness ==
    \E p \in Procs :
        /\ proc[p].pc = "body"
        /\ ~Has(proc[p].log, "ckpt")
        /\ control = Record(proc[p].currentVersion, FALSE)
        /\ \A q \in Procs : q # p => proc[q].runs = 0

\* --------------------------------------------------------------------- C12
\* The call of f ended on a step that lacks the function of its direction.
NoDirection(f) == Done(f) /\ f.result = "DirectionUnsupported"

\* C12: when a sequential run of one process reaches a step k that lacks the
\* function of the run's direction, the call fails with the error that names
\* the direction and k, after the steps before k and their checkpoints and
\* nothing else; the record is left unlocked at the version committed last;
\* and no body is ever invoked of a function that the step lacks.
C12_MissingDirectionStops ==
    \A p \in Procs :
        LET f == proc[p]
            k == At(f.idx).version
        IN  /\ NoDirection(f) =>
                  /\ ~f.rerun /\ f.direction = "down"
                  /\ ~HasDirection(At(f.idx), f.direction)
                  /\ f.error = "DirectionUnsupported"
                  /\ control = Record(k, FALSE)
                  /\ f.log = ReadTrace(f.start) \o <<Event("lock", 0)>>
                               \o DownTrace(f.start.version, k)
                               \o <<Event("unlock", k), Event("unlock", k)>>
            /\ f.pc = "body" => HasDirection(At(f.idx), f.direction)

\* Migrating 3 down to 0 where step 3 has a down and step 2 has none: the
\* record is left at 2.
C12_Witness ==
    \E p \in Procs :
        /\ NoDirection(proc[p])
        /\ proc[p].start = Record(3, FALSE)
        /\ proc[p].version = 0
        /\ Has(proc[p].log, "down")
        /\ control = Record(2, FALSE)

\* --------------------------------------------------------------------- C13
\* C13: a call whose command is undefined or the empty string, or that is
\* made while the registry holds only the sentinel, fails with InvalidCommand
\* before any access to the control record.
C13_InvalidCommandRejected ==
    \A p \in Procs :
        LET f == proc[p] IN
        (f.runs > 0 /\ (\/ f.command = Undefined
                        \/ f.command = String(<<"">>)
                        \/ Length = 1))
        => /\ Done(f)
           /\ f.result = "InvalidCommand"
           /\ f.log = <<>>

\* --------------------------------------------------------------------- C14
\* The steps of the calls of add that returned, in the order of the calls.
AddedSteps ==
    LET ok == SelectSeq(adds, LAMBDA c : c.accepted)
    IN  [k \in 1..Len(ok) |-> Pushed(ok[k].migration)]

\* The argument is a step as the claim has it: up is callable and version is
\* a positive integer.
WellFormed(migration) ==
    /\ migration.up
    /\ migration.version.type = "number"
    /\ migration.version.n > 0
    /\ IsInteger(migration.version.n)

\* The registry is in order: ascending by version, the sentinel first, the
\* added steps each once, those of one version in the order of their calls.
RegistryInOrder ==
    /\ _list[1] = DefaultMigration
    /\ \A i, j \in 1..Len(_list) : i < j => _list[i].version <= _list[j].version
    /\ Len(_list) = 1 + Len(AddedSteps)
    /\ \A h \in 1..(2 * MaxAddVersion) :
          SelectSeq(Tail(_list), LAMBDA e : e.version = h)
            = SelectSeq(AddedSteps, LAMBDA e : e.version = h)

\* C14: after any calls of add the registry is in order, and a call whose up
\* is not callable or whose version is not a positive integer is rejected
\* and leaves the registry as it was.
C14_RegistryInvariant ==
    /\ RegistryInOrder
    /\ \A k \in 1..Len(adds) : adds[k].accepted <=> WellFormed(adds[k].migration)

\* --------------------------------------------------------------------- C15
\* C15: lock() is a test-and-set.  On a record that exists with locked=false
\* it reports success and sets locked=true, version unchanged; on a record
\* with locked=true or on no record it reports failure and changes nothing.
\* So of the attempts made with no unlock in between, one succeeds: the
\* successful attempts are at most one more than the unlocks written.
C15_LockIsTestAndSet ==
    /\ [][\A p \in Procs :
            (proc[p].pc = "lock" /\ proc'[p] # proc[p]) =>
                IF control.exists /\ ~control.locked
                THEN /\ control' = Record(control.version, TRUE)
                     /\ Has(proc'[p].log, "lock")
                     /\ ~Has(proc'[p].log, "denied")
                ELSE /\ control' = control
                     /\ proc'[p].log = Append(proc[p].log, Event("denied", 0))
                     /\ Done(proc'[p])]_vars
    /\ [](LET entries == UNION { { <<p, k>> : k \in 1..Len(proc[p].log) } :
                                    p \in Procs }
               count(op) == Cardinality({ e \in entries :
                                            proc[e[1]].log[e[2]].op = op })
           IN  count("lock") <= 1 + count("unlock"))

\* Of two attempts on an unlocked record one succeeded and the other failed.
C15_Witness ==
    \E p, q \in Procs :
        /\ Has(proc[p].log, "lock") /\ ~Has(proc[p].log, "unlock")
        /\ Has(proc[q].log, "denied")
        /\ control = Record(proc[p].start.version, TRUE)

\* --------------------------------------------------------------------- C16
\* The call of f is a sequential run that took the lock on an unlocked record.
SeqRun(f) ==
    /\ f.runs > 0 /\ ~f.rerun
    /\ ~f.start.locked
    /\ Has(f.log, "lock")

\* The k-th entry of the log of f is a step whose body has completed.
Completed(f, k) ==
    /\ IsStep(f.log[k])
    /\ ~(f.pc = "body" /\ k = Len(f.log))
    /\ ~(k < Len(f.log) /\ f.log[k + 1].op = "throw")

\* C16: at every moment of a sequential run of one process the stored version
\* is not ahead of the work done.  Every registered version between the start
\* and the stored version has had its up body completed (upward), every
\* registered version between the stored version and the start has had its
\* down body completed (downward); at most one completed step is not yet
\* checkpointed; the record stays locked from the lock to the unlock, and
\* every checkpoint is written with locked=true at the version reached.
C16_CheckpointConsistency ==
    /\ [](\A p \in Procs :
            LET f == proc[p]
                c == f.start.version
                done == { k \in 1..Len(f.log) : Completed(f, k) }
                ckpts == { k \in 1..Len(f.log) : f.log[k].op = "ckpt" }
            IN  SeqRun(f) =>
                  /\ \A w \in Versions :
                        (c < w /\ w <= control.version) =>
                            \E k \in done : f.log[k] = Event("up", w)
                  /\ \A w \in Versions :
                        (control.version < w /\ w <= c) =>
                            \E k \in done : f.log[k] = Event("down", w)
                  /\ Cardinality(done) - Cardinality(ckpts) >= 0
                  /\ Cardinality(done) - Cardinality(ckpts) <= 1
                  /\ Holding(f) => control.locked)
    /\ [][\A p \in Procs :
            (proc[p].pc = "updateVersion" /\ proc'[p] # proc[p]) =>
                control' = Record(proc[p].currentVersion, TRUE)]_vars

\* Migrating 0 to 3: the body of up 2 has completed and its checkpoint is
\* not yet written; the record is locked at 1.
C16_Witness ==
    \E p \in Procs :
        /\ SeqRun(proc[p])
        /\ proc[p].pc = "updateVersion"
        /\ proc[p].start = Record(0, FALSE)
        /\ proc[p].version = 3
        /\ proc[p].currentVersion = 2
        /\ control = Record(1, TRUE)

\* --------------------------------------------------------------------- C17
\* The command of f is a string whose second field is rerun.
AsksRerun(command) ==
    /\ command.type = "string"
    /\ Len(command.s) >= 2
    /\ command.s[2] = "rerun"

\* C17: _migrateTo is called with rerun = true exactly when the subcommand
\* is rerun, whether the target is latest or an integer, and with the
\* resolved target as its version.
C17_RerunHonoured ==
    \A p \in Procs :
        LET f == proc[p] IN
        (f.runs > 0 /\ f.result # "InvalidCommand") =>
            /\ f.rerun = AsksRerun(f.command)
            /\ f.command.type = "string" /\ f.command.s[1] = "latest"
                  => f.version = MaxRegistered

\* --------------------------------------------------------------------- C18
\* C18: once a call has written its unlock it writes nothing more to the
\* control record.
C18_NoWriteAfterUnlock ==
    \A p \in Procs :
        \A k, j \in 1..Len(proc[p].log) :
            (k < j /\ proc[p].log[k].op = "unlock") => ~IsWrite(proc[p].log[j])

\* --------------------------------------------------------------------- C19
\* C19: under any interleaving of migrateTo runs, getVersion calls and
\* unlock() calls over one registry, the control record, when there is one,
\* holds the version of a registered step and a boolean locked.
C19_StoredVersionRegistered ==
    control.exists =>
        /\ control.version \in Versions
        /\ control.locked \in BOOLEAN

\* A run has checkpointed version 1 on a collection that was empty, and a
\* getVersion call of another process wrote the default record.
C19_Witness ==
    \E p, q \in Procs :
        /\ Has(proc[p].log, "ckpt")
        /\ proc[q].command = Undefined /\ Has(proc[q].log, "create")
        /\ control.exists /\ control.version = 1

====
